---- MODULE Spec2Model ----
(***************************************************************************)
(* ksound: the Player (src/src/player/mod.rs), its two persisted track     *)
(* sets (src/src/config/mod.rs) and the main loop (src/src/main.rs).       *)
(*                                                                         *)
(* A path is a string; "None" stands for Option::None of a path or string, *)
(* NoInstant for Option::None of an Instant.  A text file is the bag of    *)
(* its lines (no claim depends on the order of the lines).                 *)
(***************************************************************************)
EXTENDS Integers, Sequences, FiniteSets, Bags, TLC

VARIABLES
    player,          \* struct Player (player/mod.rs 34-48)
    skip_file,       \* lines of ~/.ksound/skipped_tracks.txt
    favorites_file,  \* lines of ~/.ksound/favorites_tracks.txt
    disk,            \* canonical paths of the audio files that exist
    load_result,     \* per file: what opening a sink on it gives
    now,             \* Instant::now(), in clock units
    pc,              \* where main() stands; "api" when the Player is driven directly
    added,           \* canonical paths SkipList::add has appended in this process
    sessions,        \* number of set_playlist calls so far
    stopwatch,       \* an observer's clock: when the playing track was loaded
                     \* and for how long its sink has been paused since
    last             \* the last operation called and what it returned

vars == <<player, skip_file, favorites_file, disk, load_result, now, pc, added, sessions,
          stopwatch, last>>

----------------------------------------------------------------------------
(* Bounds *)

\* longest raw track list handed to set_playlist
MaxLen == 3
\* most lines the skip file grows to
MaxSkipLines == 2
\* most set_playlist calls in one process
MaxSessions == 2
\* the clock stops ticking at this time
MaxTime == 4
\* longest raw track list handed to set_playlist under the ticking clock
MaxClockLen == 1

----------------------------------------------------------------------------
(* Paths and the file system *)

None == "None"
NoInstant == -1

\* canonical (absolute, resolved) paths of the audio files
Files == {"/m/a.mp3", "/m/b.mp3", "/m/c.mp3"}

\* relative spellings, resolved against the current directory /m
RelPaths == {"a.mp3"}

\* every spelling a caller may hand in
Paths == Files \cup RelPaths

\* Path::is_absolute
is_absolute(p) == p \in Files

\* std::env::current_dir()?.join(p), the current directory being /m
current_dir_join(p) ==
    CASE p = "a.mp3" -> "/m/a.mp3"
      [] OTHER -> p

\* Path::canonicalize of an absolute path: Err (None here) when the file is
\* missing, the canonical string otherwise
canonicalize(d, abs) == IF abs \in d THEN abs ELSE None

\* SkipList::to_canonical_path / FavoritesList::to_canonical_path
to_canonical_path(d, p) ==
    LET absolute_path == IF is_absolute(p) THEN p ELSE current_dir_join(p)
    IN canonicalize(d, absolute_path)

\* line.trim().is_empty()
IsBlank(line) == line \in {"", " "}

\* the HashSet a file's lines are read into (load_skipped_tracks,
\* FavoritesList::new): blank lines are dropped
ReadLines(file) == {l \in BagToSet(file) : ~IsBlank(l)}

\* writeln!(file, ...) on a file opened for append
AppendLine(file, line) == file (+) SetToBag({line})

\* number of lines of a file
LineCount(file) == BagCardinality(file)

----------------------------------------------------------------------------
(* config::SkipList.  A SkipList value is its cache,                       *)
(* [some |-> BOOLEAN, set |-> set of lines]; the backing file is skip_file *)

\* SkipList::new: the cache starts as None
SkipList_new == [some |-> FALSE, set |-> {}]

\* SkipList::load_skipped_tracks: reads the file only when nothing is cached
load_skipped_tracks(sl, file) ==
    IF sl.some THEN sl ELSE [some |-> TRUE, set |-> ReadLines(file)]

\* is_skipped as it would be if it answered from the cache for a path it
\* cannot canonicalize
is_skipped_by_absolute_path(sl, file, d, p) ==
    LET loaded == load_skipped_tracks(sl, file)
        absolute_path == IF is_absolute(p) THEN p ELSE current_dir_join(p)
    IN [skip_list |-> loaded, value |-> absolute_path \in loaded.set]

\* SkipList::is_skipped: [skip_list, value]
SkipList_is_skipped(sl, file, d, p) ==
    LET loaded == load_skipped_tracks(sl, file)
        canonical_path_str == to_canonical_path(d, p)
    IN [skip_list |-> loaded,
        value |-> IF canonical_path_str = None
                  THEN FALSE
                  ELSE canonical_path_str \in loaded.set]

\* SkipList::add as it would be if it stored the absolute path without
\* canonicalizing it
skip_add_unchecked(file, d, p) ==
    LET absolute_path == IF is_absolute(p) THEN p ELSE current_dir_join(p)
    IN [ok |-> TRUE, file |-> AppendLine(file, absolute_path)]

\* SkipList::add: [ok, file]; appends the canonical path to the file and
\* leaves the cache as it is
SkipList_add(file, d, p) ==
    LET absolute_path == IF is_absolute(p) THEN p ELSE current_dir_join(p)
        canonical_path == canonicalize(d, absolute_path)
    IN IF canonical_path = None
       THEN [ok |-> FALSE, file |-> file]
       ELSE [ok |-> TRUE, file |-> AppendLine(file, canonical_path)]

----------------------------------------------------------------------------
(* config::FavoritesList.  The cache is always Some: a set of lines        *)

\* FavoritesList::new: the file is read eagerly
FavoritesList_new(file) == ReadLines(file)

\* FavoritesList::is_favorite
FavoritesList_is_favorite(cached, d, p) ==
    LET canonical_path_str == to_canonical_path(d, p)
    IN IF canonical_path_str = None THEN FALSE ELSE canonical_path_str \in cached

\* FavoritesList::add as it would be without the test of the cache
fav_add_always_appends(cached, file, d, p) ==
    LET absolute_path == IF is_absolute(p) THEN p ELSE current_dir_join(p)
        canonical_path == canonicalize(d, absolute_path)
    IN IF canonical_path = None
       THEN [ok |-> FALSE, cached |-> cached, file |-> file]
       ELSE [ok |-> TRUE,
             cached |-> cached \cup {canonical_path},
             file |-> AppendLine(file, canonical_path)]

\* FavoritesList::add: [ok, cached, file]
FavoritesList_add(cached, file, d, p) ==
    LET absolute_path == IF is_absolute(p) THEN p ELSE current_dir_join(p)
        canonical_path == canonicalize(d, absolute_path)
    IN IF canonical_path = None
       THEN [ok |-> FALSE, cached |-> cached, file |-> file]
       ELSE IF canonical_path \in cached
       THEN [ok |-> TRUE, cached |-> cached, file |-> file]
       ELSE [ok |-> TRUE,
             cached |-> cached \cup {canonical_path},
             file |-> AppendLine(file, canonical_path)]

\* FavoritesList::remove as it would be if the file were not rewritten
fav_remove_cache_only(cached, file, d, p) ==
    LET canonical_path_str == to_canonical_path(d, p)
    IN IF canonical_path_str = None
       THEN [ok |-> TRUE, cached |-> cached, file |-> file]
       ELSE [ok |-> TRUE, cached |-> cached \ {canonical_path_str}, file |-> file]

\* FavoritesList::remove: [ok, cached, file]; the file is rewritten from the
\* cache
FavoritesList_remove(cached, file, d, p) ==
    LET canonical_path_str == to_canonical_path(d, p)
    IN IF canonical_path_str = None
       THEN [ok |-> TRUE, cached |-> cached, file |-> file]
       ELSE [ok |-> TRUE,
             cached |-> cached \ {canonical_path_str},
             file |-> SetToBag(cached \ {canonical_path_str})]

----------------------------------------------------------------------------
(* The audio sink (rodio::Sink) and the clock                              *)

\* Sink::try_new(..) followed by sink.append(source): playing, queue not
\* empty, volume 1.0 (counted in tenths)
DefaultVolume == 10

NoSink == [exists |-> FALSE, paused |-> FALSE, empty |-> TRUE, volume |-> DefaultVolume]

NewSink == [exists |-> TRUE, paused |-> FALSE, empty |-> FALSE, volume |-> DefaultVolume]

\* outcomes of loading a file that can be opened
LoadResults == {"ok", "decode_error", "sink_error"}

\* source.total_duration() and TrackMetadata::from_path of a file
DurationOf(f) == "duration of " \o f

MetadataOf(f) == IF f = "/m/c.mp3" THEN None ELSE f

----------------------------------------------------------------------------
(* struct Player                                                           *)

\* Player::new
Player_new(fav_file) ==
    [sink |-> NoSink,
     playlist |-> <<>>,
     current_index |-> 0,
     current_playing |-> None,
     skip_list |-> SkipList_new,
     favorites_list |-> FavoritesList_new(fav_file),
     total_duration |-> None,
     start_time |-> NoInstant,
     paused_duration |-> 0,
     pause_start |-> NoInstant,
     current_metadata |-> None]

\* Player::filter_skipped_tracks: [skip_list, filtered]
RECURSIVE filter_skipped_tracks(_, _, _, _, _)
filter_skipped_tracks(sl, file, d, plist, filtered) ==
    IF plist = <<>>
    THEN [skip_list |-> sl, filtered |-> filtered]
    ELSE LET r == SkipList_is_skipped(sl, file, d, Head(plist))
         IN filter_skipped_tracks(r.skip_list, file, d, Tail(plist),
                IF ~r.value THEN Append(filtered, Head(plist)) ELSE filtered)

\* Player::add_favorites_twice
RECURSIVE add_favorites_twice(_, _, _, _)
add_favorites_twice(cached, d, plist, extended_playlist) ==
    IF plist = <<>>
    THEN extended_playlist
    ELSE LET path == Head(plist)
             once == Append(extended_playlist, path)
         IN add_favorites_twice(cached, d, Tail(plist),
                IF FavoritesList_is_favorite(cached, d, path)
                THEN Append(once, path)
                ELSE once)

\* Player::set_playlist: the player after the call
set_playlist(p, file, d, raw, random) ==
    LET f == filter_skipped_tracks(p.skip_list, file, d, raw, <<>>)
        filtered_playlist ==
            IF random
            THEN add_favorites_twice(p.favorites_list, d, f.filtered, <<>>)
            ELSE f.filtered
    IN [p EXCEPT !.skip_list = f.skip_list,
                 !.playlist = filtered_playlist,
                 !.current_index = 0]

\* play_file as it would be if a Decoder::new error were not propagated
play_file_ignore_decode(p, d, lr, t, path) ==
    LET f == to_canonical_path(d, path)
    IN IF f = None
       THEN [ok |-> FALSE, player |-> p]
       ELSE LET q == [p EXCEPT !.total_duration = DurationOf(f),
                               !.start_time = t,
                               !.paused_duration = 0,
                               !.pause_start = NoInstant,
                               !.current_metadata = MetadataOf(f)]
            IN IF lr[f] = "sink_error"
               THEN [ok |-> FALSE, player |-> q]
               ELSE [ok |-> TRUE, player |-> [q EXCEPT !.sink = NewSink]]

\* play_file as it would be if it left the pause bookkeeping alone
play_file_keeps_pause(p, d, lr, t, path) ==
    LET f == to_canonical_path(d, path)
    IN IF f = None \/ lr[f] = "decode_error"
       THEN [ok |-> FALSE, player |-> p]
       ELSE LET q == [p EXCEPT !.total_duration = DurationOf(f),
                               !.start_time = t,
                               !.current_metadata = MetadataOf(f)]
            IN IF lr[f] = "sink_error"
               THEN [ok |-> FALSE, player |-> q]
               ELSE [ok |-> TRUE, player |-> [q EXCEPT !.sink = NewSink]]

\* Player::play_file: [ok, player].  File::open fails on a missing file and
\* Decoder::new on an undecodable one, before anything is assigned; the clock
\* fields are assigned before Sink::try_new, which may fail after them
play_file(p, d, lr, t, path) ==
    LET f == to_canonical_path(d, path)
    IN IF f = None \/ lr[f] = "decode_error"
       THEN [ok |-> FALSE, player |-> p]
       ELSE LET q == [p EXCEPT !.total_duration = DurationOf(f),
                               !.start_time = t,
                               !.paused_duration = 0,
                               !.pause_start = NoInstant,
                               !.current_metadata = MetadataOf(f)]
            IN IF lr[f] = "sink_error"
               THEN [ok |-> FALSE, player |-> q]
               ELSE [ok |-> TRUE, player |-> [q EXCEPT !.sink = NewSink]]

\* the only element of a one-element set
The(S) == CHOOSE x \in S : TRUE

\* one turn of play_next as it would be if the cursor moved on without
\* wrapping around
play_next_attempt_no_wrap(p, d, lr, t) ==
    LET idx == IF p.current_index >= Len(p.playlist) THEN 0 ELSE p.current_index
        path == p.playlist[idx + 1]
        r == play_file(p, d, lr, t, path)
        next_index == idx + 1
    IN [ok |-> r.ok,
        idx |-> idx,
        player |-> IF r.ok
                   THEN [r.player EXCEPT !.current_playing = path,
                                         !.current_index = next_index]
                   ELSE [r.player EXCEPT !.current_index = next_index]]

\* one turn of the while loop of Player::play_next: [ok, idx, player]; idx is
\* the index the load was attempted on
play_next_attempt(p, d, lr, t) ==
    LET idx == IF p.current_index >= Len(p.playlist) THEN 0 ELSE p.current_index
        path == p.playlist[idx + 1]
        r == play_file(p, d, lr, t, path)
        next_index == (idx + 1) % Len(p.playlist)
    IN [ok |-> r.ok,
        idx |-> idx,
        player |-> IF r.ok
                   THEN [r.player EXCEPT !.current_playing = path,
                                         !.current_index = next_index]
                   ELSE [r.player EXCEPT !.current_index = next_index]]

\* the while loop of Player::play_next: [player, attempts, loaded, tried]
\* (tried: the playlist indices a load was attempted on, in order)
RECURSIVE play_next_loop(_, _, _, _, _, _, _)
play_next_loop(p, d, lr, t, playlist_len, attempts, tried) ==
    IF ~(attempts < playlist_len)
    THEN [player |-> p, attempts |-> attempts, loaded |-> FALSE, tried |-> tried]
    ELSE The({IF a.ok
              THEN [player |-> a.player, attempts |-> attempts + 1,
                    loaded |-> TRUE, tried |-> Append(tried, a.idx)]
              ELSE play_next_loop(a.player, d, lr, t, playlist_len,
                                  attempts + 1, Append(tried, a.idx))
              : a \in {play_next_attempt(p, d, lr, t)}})

\* play_next as it would be with the loop bound off by one (attempts <= len)
play_next_extra_attempt(p, d, lr, t) ==
    IF p.playlist = <<>>
    THEN [player |-> p, attempts |-> 0, loaded |-> FALSE, tried |-> <<>>]
    ELSE play_next_loop(p, d, lr, t, Len(p.playlist) + 1, 0, <<>>)

\* play_next as it would be without the retry: one attempt, then give up
play_next_single_attempt(p, d, lr, t) ==
    IF p.playlist = <<>>
    THEN [player |-> p, attempts |-> 0, loaded |-> FALSE, tried |-> <<>>]
    ELSE play_next_loop(p, d, lr, t, 1, 0, <<>>)

\* play_next as it would be if every call started at the head of the
\* playlist
play_next_from_start(p, d, lr, t) ==
    IF p.playlist = <<>>
    THEN [player |-> p, attempts |-> 0, loaded |-> FALSE, tried |-> <<>>]
    ELSE play_next_loop([p EXCEPT !.current_index = 0], d, lr, t,
                        Len(p.playlist), 0, <<>>)

\* play_next as it would be with the loop bound one short
play_next_short(p, d, lr, t) ==
    IF p.playlist = <<>>
    THEN [player |-> p, attempts |-> 0, loaded |-> FALSE, tried |-> <<>>]
    ELSE play_next_loop(p, d, lr, t, Len(p.playlist) - 1, 0, <<>>)

\* Player::play_next (always returns Ok)
play_next(p, d, lr, t) ==
    IF p.playlist = <<>>
    THEN [player |-> p, attempts |-> 0, loaded |-> FALSE, tried |-> <<>>]
    ELSE play_next_loop(p, d, lr, t, Len(p.playlist), 0, <<>>)

\* usize::saturating_sub(1)
saturating_sub_1(n) == IF n = 0 THEN 0 ELSE n - 1

\* one turn of play_previous as it would be if it stepped back from the
\* track last loaded by play_next rather than from the cursor
play_previous_attempt_steps_back(p, d, lr, t) ==
    LET n == Len(p.playlist)
        idx == (p.current_index + 2 * n - 2) % n
        path == p.playlist[idx + 1]
        r == play_file([p EXCEPT !.current_index = idx], d, lr, t, path)
    IN [ok |-> r.ok,
        idx |-> idx,
        player |-> IF r.ok
                   THEN [r.player EXCEPT !.current_playing = path]
                   ELSE r.player]

\* one turn of the while loop of Player::play_previous: [ok, idx, player]
play_previous_attempt(p, d, lr, t) ==
    LET idx == IF p.current_index = 0
               THEN saturating_sub_1(Len(p.playlist))
               ELSE saturating_sub_1(p.current_index)
        path == p.playlist[idx + 1]
        r == play_file([p EXCEPT !.current_index = idx], d, lr, t, path)
    IN [ok |-> r.ok,
        idx |-> idx,
        player |-> IF r.ok
                   THEN [r.player EXCEPT !.current_playing = path]
                   ELSE r.player]

\* the while loop of Player::play_previous
RECURSIVE play_previous_loop(_, _, _, _, _, _, _)
play_previous_loop(p, d, lr, t, playlist_len, attempts, tried) ==
    IF ~(attempts < playlist_len)
    THEN [player |-> p, attempts |-> attempts, loaded |-> FALSE, tried |-> tried]
    ELSE The({IF a.ok
              THEN [player |-> a.player, attempts |-> attempts + 1,
                    loaded |-> TRUE, tried |-> Append(tried, a.idx)]
              ELSE play_previous_loop(a.player, d, lr, t, playlist_len,
                                      attempts + 1, Append(tried, a.idx))
              : a \in {play_previous_attempt(p, d, lr, t)}})

\* play_previous as it would be with the loop bound one short
play_previous_short(p, d, lr, t) ==
    IF p.playlist = <<>>
    THEN [player |-> p, attempts |-> 0, loaded |-> FALSE, tried |-> <<>>]
    ELSE play_previous_loop(p, d, lr, t, Len(p.playlist) - 1, 0, <<>>)

\* Player::play_previous (always returns Ok)
play_previous(p, d, lr, t) ==
    IF p.playlist = <<>>
    THEN [player |-> p, attempts |-> 0, loaded |-> FALSE, tried |-> <<>>]
    ELSE play_previous_loop(p, d, lr, t, Len(p.playlist), 0, <<>>)

\* Player::pause
pause(p, t) ==
    IF p.sink.exists
    THEN [p EXCEPT !.sink.paused = TRUE, !.pause_start = t]
    ELSE p

\* Player::play
play(p, t) ==
    IF p.sink.exists
    THEN [p EXCEPT !.sink.paused = FALSE,
                   !.paused_duration =
                       IF p.pause_start # NoInstant
                       THEN p.paused_duration + (t - p.pause_start)
                       ELSE p.paused_duration,
                   !.pause_start = NoInstant]
    ELSE p

\* the volume is counted in steps of 0.1: (v + 0.1).min(2.0) and
\* (v - 0.1).max(0.0)
MaxVolume == 20

MinVolume == 0

\* increase_volume as it would be without .min(2.0)
increase_volume_unclamped(p) ==
    IF p.sink.exists
    THEN [p EXCEPT !.sink.volume = p.sink.volume + 1]
    ELSE p

\* Player::increase_volume
increase_volume(p) ==
    IF p.sink.exists
    THEN LET current_volume == p.sink.volume
             new_volume == IF current_volume + 1 < MaxVolume
                           THEN current_volume + 1
                           ELSE MaxVolume
         IN [p EXCEPT !.sink.volume = new_volume]
    ELSE p

\* Player::decrease_volume
decrease_volume(p) ==
    IF p.sink.exists
    THEN LET current_volume == p.sink.volume
             new_volume == IF current_volume - 1 > MinVolume
                           THEN current_volume - 1
                           ELSE MinVolume
         IN [p EXCEPT !.sink.volume = new_volume]
    ELSE p

\* Player::get_current_position: [some, panics, value].  The clock is read
\* twice, at t1 by start_time.elapsed() and at t2 >= t1 by
\* pause_start.elapsed().  None without a start time; the subtraction of two
\* Durations panics when it would go below zero
get_current_position(p, t1, t2) ==
    IF p.start_time = NoInstant
    THEN [some |-> FALSE, panics |-> FALSE, value |-> 0]
    ELSE LET elapsed == t1 - p.start_time
             pause_duration ==
                 IF p.pause_start # NoInstant
                 THEN p.paused_duration + (t2 - p.pause_start)
                 ELSE p.paused_duration
         IN IF elapsed - pause_duration < 0
            THEN [some |-> FALSE, panics |-> TRUE, value |-> 0]
            ELSE [some |-> TRUE, panics |-> FALSE, value |-> elapsed - pause_duration]

\* handle_playback as it would be without the sink.empty() test
handle_playback_ignore_queue(p, d, lr, t) ==
    LET idle == [player |-> p, attempts |-> 0, loaded |-> FALSE, tried |-> <<>>]
    IN IF p.sink.exists /\ p.playlist # <<>>
       THEN IF p.current_index >= Len(p.playlist)
            THEN [continue |-> FALSE, called |-> FALSE, r |-> idle]
            ELSE [continue |-> TRUE, called |-> TRUE, r |-> play_next(p, d, lr, t)]
       ELSE [continue |-> TRUE, called |-> FALSE, r |-> idle]

\* handle_playback as it would be without the test for an empty playlist
handle_playback_any_playlist(p, d, lr, t) ==
    LET idle == [player |-> p, attempts |-> 0, loaded |-> FALSE, tried |-> <<>>]
    IN IF p.sink.exists /\ p.sink.empty
       THEN IF p.current_index >= Len(p.playlist)
            THEN [continue |-> FALSE, called |-> FALSE, r |-> idle]
            ELSE [continue |-> TRUE, called |-> TRUE, r |-> play_next(p, d, lr, t)]
       ELSE [continue |-> TRUE, called |-> FALSE, r |-> idle]

\* Player::handle_playback: [continue, called, r]; called tells whether
\* play_next ran, r is what it returned
handle_playback(p, d, lr, t) ==
    LET idle == [player |-> p, attempts |-> 0, loaded |-> FALSE, tried |-> <<>>]
    IN IF p.sink.exists /\ p.sink.empty /\ p.playlist # <<>>
       THEN IF p.current_index >= Len(p.playlist)
            THEN [continue |-> FALSE, called |-> FALSE, r |-> idle]
            ELSE [continue |-> TRUE, called |-> TRUE, r |-> play_next(p, d, lr, t)]
       ELSE [continue |-> TRUE, called |-> FALSE, r |-> idle]

\* playlist.iter().position(|path| path == current): 0-based, -1 for None
position(plist, current) ==
    IF \E i \in 1..Len(plist) : plist[i] = current
    THEN (CHOOSE i \in 1..Len(plist) :
              /\ plist[i] = current
              /\ \A j \in 1..(i - 1) : plist[j] # current) - 1
    ELSE -1

\* Vec::remove(index), index 0-based
vec_remove(plist, index) ==
    [i \in 1..(Len(plist) - 1) |-> IF i <= index THEN plist[i] ELSE plist[i + 1]]

\* remove_current_from_playlist as it would be without the cursor adjustment
remove_current_keep_cursor(p) ==
    IF p.current_playing = None
    THEN p
    ELSE LET index == position(p.playlist, p.current_playing)
         IN IF index = -1
            THEN p
            ELSE [p EXCEPT !.playlist = vec_remove(p.playlist, index)]

\* remove_current_from_playlist as it would be if it removed the entry under
\* the cursor
remove_at_cursor(p) ==
    IF p.current_playing = None \/ p.current_index >= Len(p.playlist)
    THEN p
    ELSE [p EXCEPT !.playlist = vec_remove(p.playlist, p.current_index),
                   !.current_index =
                       IF p.current_index > 0
                       THEN p.current_index - 1
                       ELSE p.current_index]

\* Player::remove_current_from_playlist
remove_current_from_playlist(p) ==
    IF p.current_playing = None
    THEN p
    ELSE LET index == position(p.playlist, p.current_playing)
         IN IF index = -1
            THEN p
            ELSE [p EXCEPT !.playlist = vec_remove(p.playlist, index),
                           !.current_index =
                               IF index <= p.current_index /\ p.current_index > 0
                               THEN p.current_index - 1
                               ELSE p.current_index]

\* mark_skip as it would be if the playlist entry were removed before the
\* Skip List add
mark_skip_remove_first(p, file, d, lr, t) ==
    LET idle == [player |-> p, attempts |-> 0, loaded |-> FALSE, tried |-> <<>>]
        removed == remove_current_from_playlist(p)
    IN IF p.current_playing = None
       THEN [ok |-> TRUE, file |-> file, called |-> FALSE, r |-> idle]
       ELSE LET a == SkipList_add(file, d, p.current_playing)
            IN IF ~a.ok
               THEN [ok |-> FALSE, file |-> file, called |-> FALSE,
                     r |-> [idle EXCEPT !.player = removed]]
               ELSE [ok |-> TRUE, file |-> a.file, called |-> TRUE,
                     r |-> play_next(removed, d, lr, t)]

\* Player::mark_skip: [ok, file, called, r]; file is the skip file after the
\* call, called tells whether play_next ran
mark_skip(p, file, d, lr, t) ==
    LET idle == [player |-> p, attempts |-> 0, loaded |-> FALSE, tried |-> <<>>]
    IN IF p.current_playing = None
       THEN [ok |-> TRUE, file |-> file, called |-> FALSE, r |-> idle]
       ELSE LET a == SkipList_add(file, d, p.current_playing)
            IN IF ~a.ok
               THEN [ok |-> FALSE, file |-> file, called |-> FALSE, r |-> idle]
               ELSE [ok |-> TRUE, file |-> a.file, called |-> TRUE,
                     r |-> play_next(remove_current_from_playlist(p), d, lr, t)]

\* fs::remove_file: [ok, disk]
remove_file(d, path) ==
    LET f == to_canonical_path(d, path)
    IN IF f = None THEN [ok |-> FALSE, disk |-> d] ELSE [ok |-> TRUE, disk |-> d \ {f}]

\* delete_current_track as it would be if the playlist entry were removed
\* whether or not the file could be removed
delete_current_track_always_removes(p, d) ==
    IF p.current_playing = None
    THEN [ok |-> TRUE, player |-> p, disk |-> d]
    ELSE LET rm == remove_file(d, p.current_playing)
         IN [ok |-> rm.ok, player |-> remove_current_from_playlist(p), disk |-> rm.disk]

\* Player::delete_current_track: [ok, player, disk]
delete_current_track(p, d) ==
    IF p.current_playing = None
    THEN [ok |-> TRUE, player |-> p, disk |-> d]
    ELSE LET rm == remove_file(d, p.current_playing)
         IN IF ~rm.ok
            THEN [ok |-> FALSE, player |-> p, disk |-> d]
            ELSE [ok |-> TRUE, player |-> remove_current_from_playlist(p),
                  disk |-> rm.disk]

\* mark_favorite as it would be if it never removed
mark_favorite_add_only(p, file, d) ==
    IF p.current_playing = None
    THEN [ok |-> TRUE, cached |-> p.favorites_list, file |-> file]
    ELSE FavoritesList_add(p.favorites_list, file, d, p.current_playing)

\* Player::mark_favorite: [ok, cached, file]
mark_favorite(p, file, d) ==
    IF p.current_playing = None
    THEN [ok |-> TRUE, cached |-> p.favorites_list, file |-> file]
    ELSE IF FavoritesList_is_favorite(p.favorites_list, d, p.current_playing)
    THEN FavoritesList_remove(p.favorites_list, file, d, p.current_playing)
    ELSE FavoritesList_add(p.favorites_list, file, d, p.current_playing)

----------------------------------------------------------------------------
(* Initial states                                                          *)

\* the library in the order the caller lists it; both spellings of a.mp3
\* may be listed
Library == <<"/m/b.mp3", "a.mp3", "/m/c.mp3", "/m/a.mp3">>

\* the entries of q at the positions in S, in order
RECURSIVE Pick(_, _, _)
Pick(q, S, i) ==
    IF i > Len(q)
    THEN <<>>
    ELSE IF i \in S THEN <<q[i]>> \o Pick(q, S, i + 1) ELSE Pick(q, S, i + 1)

\* raw track lists handed to set_playlist: distinct paths, at most MaxLen
RawLists ==
    {Pick(Library, S, 1) : S \in {T \in SUBSET (1..Len(Library)) : Cardinality(T) <= MaxLen}}

\* what earlier runs (or an editor) may have left in the two files
InitFiles ==
    {[skip |-> EmptyBag, favorites |-> SetToBag({"/m/a.mp3", ""})],
     [skip |-> SetToBag({"/m/b.mp3"}), favorites |-> EmptyBag]}

\* what the last step was and what it reported: the operation, its return
\* value, whether it called play_next, whether a track was loaded and after
\* how many load attempts, and the arguments and answer where there are any
Report(op, ret, called, r) ==
    [op |-> op, ret |-> ret, called |-> called, loaded |-> r.loaded,
     attempts |-> r.attempts,
     raw |-> <<>>, random |-> FALSE, path |-> None, value |-> FALSE]

Idle == [loaded |-> FALSE, attempts |-> 0]

\* Player::new() on a machine whose files all exist
InitCommon ==
    /\ \E f \in InitFiles : skip_file = f.skip /\ favorites_file = f.favorites
    /\ player = Player_new(favorites_file)
    /\ disk = Files
    /\ now = 0
    /\ added = {}
    /\ sessions = 0
    /\ stopwatch = [loaded_at |-> NoInstant, paused_for |-> 0]
    /\ last = Report("new", "ok", FALSE, Idle)

Init ==
    /\ InitCommon
    /\ load_result \in [Files -> {"ok", "decode_error"}]
    /\ pc = "api"

----------------------------------------------------------------------------
(* The Player's operations as steps                                        *)

Env == <<disk, load_result, now>>

Kept == <<added, sessions>>

\* the observer restarts the stopwatch when a call has loaded a track
Restarted(r) ==
    IF r.loaded THEN [loaded_at |-> now, paused_for |-> 0] ELSE stopwatch

DoSetPlaylist(raw, random) ==
    /\ sessions < MaxSessions
    /\ sessions' = sessions + 1
    /\ player' = set_playlist(player, skip_file, disk, raw, random)
    /\ last' = [Report("set_playlist", "ok", FALSE, Idle)
                   EXCEPT !.raw = raw, !.random = random]
    /\ UNCHANGED <<skip_file, favorites_file, added, stopwatch, Env>>

DoPlayNext ==
    LET r == play_next(player, disk, load_result, now)
    IN /\ player' = r.player
       /\ last' = Report("play_next", "ok", FALSE, r)
       /\ stopwatch' = Restarted(r)
       /\ UNCHANGED <<skip_file, favorites_file, Kept, Env>>

DoPlayPrevious ==
    LET r == play_previous(player, disk, load_result, now)
    IN /\ player' = r.player
       /\ last' = Report("play_previous", "ok", FALSE, r)
       /\ stopwatch' = Restarted(r)
       /\ UNCHANGED <<skip_file, favorites_file, Kept, Env>>

DoHandlePlayback ==
    LET h == handle_playback(player, disk, load_result, now)
    IN /\ player' = h.r.player
       /\ last' = Report("handle_playback",
                         IF h.continue THEN "continue" ELSE "stop", h.called, h.r)
       /\ stopwatch' = Restarted(h.r)
       /\ UNCHANGED <<skip_file, favorites_file, Kept, Env>>

DoMarkSkip ==
    LET m == mark_skip(player, skip_file, disk, load_result, now)
    IN /\ LineCount(skip_file) < MaxSkipLines
       /\ player' = m.r.player
       /\ skip_file' = m.file
       /\ added' = IF m.called
                   THEN added \cup {to_canonical_path(disk, player.current_playing)}
                   ELSE added
       /\ last' = Report("mark_skip", IF m.ok THEN "ok" ELSE "err", m.called, m.r)
       /\ stopwatch' = Restarted(m.r)
       /\ UNCHANGED <<favorites_file, sessions, Env>>

DoDeleteCurrentTrack ==
    LET r == delete_current_track(player, disk)
    IN /\ player' = r.player
       /\ disk' = r.disk
       /\ last' = Report("delete_current_track", IF r.ok THEN "ok" ELSE "err",
                         FALSE, Idle)
       /\ UNCHANGED <<skip_file, favorites_file, Kept, stopwatch, load_result, now>>

DoMarkFavorite ==
    LET r == mark_favorite(player, favorites_file, disk)
    IN /\ player' = [player EXCEPT !.favorites_list = r.cached]
       /\ favorites_file' = r.file
       /\ last' = Report("mark_favorite", IF r.ok THEN "ok" ELSE "err", FALSE, Idle)
       /\ UNCHANGED <<skip_file, Kept, stopwatch, Env>>

DoPause ==
    /\ player' = pause(player, now)
    /\ last' = Report("pause", "ok", FALSE, Idle)
    /\ UNCHANGED <<skip_file, favorites_file, Kept, stopwatch, Env>>

DoPlay ==
    /\ player' = play(player, now)
    /\ last' = Report("play", "ok", FALSE, Idle)
    /\ UNCHANGED <<skip_file, favorites_file, Kept, stopwatch, Env>>

\* the sink plays its queue to the end (rodio's own thread)
SinkDrain ==
    /\ player.sink.exists /\ ~player.sink.paused /\ ~player.sink.empty
    /\ player' = [player EXCEPT !.sink.empty = TRUE]
    /\ last' = Report("sink_drain", "ok", FALSE, Idle)
    /\ UNCHANGED <<skip_file, favorites_file, Kept, stopwatch, Env>>

\* the Player driven directly through its public methods
SetPlaylist ==
    /\ pc = "api" /\ UNCHANGED pc
    /\ \E raw \in RawLists, random \in BOOLEAN : DoSetPlaylist(raw, random)

PlayNext == pc = "api" /\ UNCHANGED pc /\ DoPlayNext

PlayPrevious == pc = "api" /\ UNCHANGED pc /\ DoPlayPrevious

HandlePlayback == pc = "api" /\ UNCHANGED pc /\ DoHandlePlayback

MarkSkip == pc = "api" /\ UNCHANGED pc /\ DoMarkSkip

DeleteCurrentTrack == pc = "api" /\ UNCHANGED pc /\ DoDeleteCurrentTrack

MarkFavorite == pc = "api" /\ UNCHANGED pc /\ DoMarkFavorite

Pause == pc = "api" /\ UNCHANGED pc /\ DoPause

Play == pc = "api" /\ UNCHANGED pc /\ DoPlay

Drain == pc = "api" /\ UNCHANGED pc /\ SinkDrain

Next ==
    \/ SetPlaylist
    \/ PlayNext
    \/ PlayPrevious
    \/ HandlePlayback
    \/ MarkSkip
    \/ DeleteCurrentTrack
    \/ Pause
    \/ Play
    \/ Drain

Spec == Init /\ [][Next]_vars

\* the Player driven through the methods that decide what mark_favorite
\* acts on: the playlist, the current track and the audio files
NextFavorite ==
    \/ SetPlaylist
    \/ PlayNext
    \/ PlayPrevious
    \/ MarkFavorite
    \/ DeleteCurrentTrack

SpecFavorite == Init /\ [][NextFavorite]_vars

----------------------------------------------------------------------------
(* The Player under a ticking clock: loads, pause, play and time passing   *)

\* every outcome of play_file may occur, the sink error included
InitClock ==
    /\ InitCommon
    /\ load_result \in [Files -> LoadResults]
    /\ pc = "clock"

\* time passes; a paused sink stays paused meanwhile
Tick ==
    /\ pc = "clock"
    /\ now < MaxTime
    /\ now' = now + 1
    /\ stopwatch' = IF player.sink.exists /\ player.sink.paused
                    THEN [stopwatch EXCEPT !.paused_for = @ + 1]
                    ELSE stopwatch
    /\ last' = Report("tick", "ok", FALSE, Idle)
    /\ UNCHANGED <<player, skip_file, favorites_file, disk, load_result, Kept, pc>>

ClockSetPlaylist ==
    /\ pc = "clock" /\ UNCHANGED pc
    /\ \E raw \in {q \in RawLists : Len(q) <= MaxClockLen} : DoSetPlaylist(raw, FALSE)

ClockPlayNext == pc = "clock" /\ UNCHANGED pc /\ DoPlayNext

ClockPlayPrevious == pc = "clock" /\ UNCHANGED pc /\ DoPlayPrevious

ClockPause == pc = "clock" /\ UNCHANGED pc /\ DoPause

ClockPlay == pc = "clock" /\ UNCHANGED pc /\ DoPlay

NextClock ==
    \/ Tick
    \/ ClockSetPlaylist
    \/ ClockPlayNext
    \/ ClockPlayPrevious
    \/ ClockPause
    \/ ClockPlay

SpecClock == InitClock /\ [][NextClock]_vars

----------------------------------------------------------------------------
(* The Player's volume: loads (each opens a fresh sink) and the two volume *)
(* methods                                                                 *)

InitVolume ==
    /\ InitCommon
    /\ load_result \in [Files -> {"ok", "decode_error"}]
    /\ pc = "volume"

VolumeSetPlaylist ==
    /\ pc = "volume" /\ UNCHANGED pc
    /\ \E raw \in {q \in RawLists : Len(q) <= MaxClockLen} : DoSetPlaylist(raw, FALSE)

VolumePlayNext == pc = "volume" /\ UNCHANGED pc /\ DoPlayNext

IncreaseVolume ==
    /\ pc = "volume"
    /\ player' = increase_volume(player)
    /\ last' = Report("increase_volume", "ok", FALSE, Idle)
    /\ UNCHANGED <<skip_file, favorites_file, Kept, stopwatch, Env, pc>>

DecreaseVolume ==
    /\ pc = "volume"
    /\ player' = decrease_volume(player)
    /\ last' = Report("decrease_volume", "ok", FALSE, Idle)
    /\ UNCHANGED <<skip_file, favorites_file, Kept, stopwatch, Env, pc>>

NextVolume ==
    \/ VolumeSetPlaylist
    \/ VolumePlayNext
    \/ IncreaseVolume
    \/ DecreaseVolume

SpecVolume == InitVolume /\ [][NextVolume]_vars

----------------------------------------------------------------------------
(* config::SkipList and config::FavoritesList used on their own            *)

\* a fresh SkipList and FavoritesList over whatever the files hold
InitSets ==
    /\ InitCommon
    /\ load_result = [f \in Files |-> "ok"]
    /\ pc = "sets"

\* skip_list.is_skipped(path)
IsSkipped(path) ==
    LET r == SkipList_is_skipped(player.skip_list, skip_file, disk, path)
    IN /\ pc = "sets"
       /\ player' = [player EXCEPT !.skip_list = r.skip_list]
       /\ last' = [Report("is_skipped", "ok", FALSE, Idle)
                      EXCEPT !.path = path, !.value = r.value]
       /\ UNCHANGED <<skip_file, favorites_file, Kept, stopwatch, Env, pc>>

\* skip_list.add(path)
SkipAdd(path) ==
    LET r == SkipList_add(skip_file, disk, path)
    IN /\ pc = "sets"
       /\ LineCount(skip_file) < MaxSkipLines
       /\ skip_file' = r.file
       /\ added' = IF r.ok THEN added \cup {to_canonical_path(disk, path)} ELSE added
       /\ last' = [Report("skip_add", IF r.ok THEN "ok" ELSE "err", FALSE, Idle)
                      EXCEPT !.path = path]
       /\ UNCHANGED <<player, favorites_file, sessions, stopwatch, Env, pc>>

\* somebody removes an audio file
FileRemoved(f) ==
    /\ pc = "sets"
    /\ f \in disk
    /\ disk' = disk \ {f}
    /\ last' = [Report("file_removed", "ok", FALSE, Idle) EXCEPT !.path = f]
    /\ UNCHANGED <<player, skip_file, favorites_file, Kept, stopwatch, load_result, now, pc>>

\* favorites_list.is_favorite(path)
IsFavorite(path) ==
    /\ pc = "sets"
    /\ last' = [Report("is_favorite", "ok", FALSE, Idle)
                   EXCEPT !.path = path,
                          !.value = FavoritesList_is_favorite(player.favorites_list, disk, path)]
    /\ UNCHANGED <<player, skip_file, favorites_file, Kept, stopwatch, Env, pc>>

\* favorites_list.add(path); value is what cached.contains answered (FALSE
\* when the call returned before asking)
FavAdd(path) ==
    LET r == FavoritesList_add(player.favorites_list, favorites_file, disk, path)
    IN /\ pc = "sets"
       /\ player' = [player EXCEPT !.favorites_list = r.cached]
       /\ favorites_file' = r.file
       /\ last' = [Report("fav_add", IF r.ok THEN "ok" ELSE "err", FALSE, Idle)
                      EXCEPT !.path = path,
                             !.value = /\ r.ok
                                       /\ to_canonical_path(disk, path) \in player.favorites_list]
       /\ UNCHANGED <<skip_file, Kept, stopwatch, Env, pc>>

\* favorites_list.remove(path); value is what cached.remove answered (FALSE
\* when the call returned before asking)
FavRemove(path) ==
    LET r == FavoritesList_remove(player.favorites_list, favorites_file, disk, path)
    IN /\ pc = "sets"
       /\ player' = [player EXCEPT !.favorites_list = r.cached]
       /\ favorites_file' = r.file
       /\ last' = [Report("fav_remove", IF r.ok THEN "ok" ELSE "err", FALSE, Idle)
                      EXCEPT !.path = path,
                             !.value = /\ to_canonical_path(disk, path) # None
                                       /\ to_canonical_path(disk, path) \in player.favorites_list]
       /\ UNCHANGED <<skip_file, Kept, stopwatch, Env, pc>>

NextSets ==
    \/ \E path \in Paths : IsSkipped(path)
    \/ \E path \in Paths : SkipAdd(path)
    \/ \E f \in Files : FileRemoved(f)
    \/ \E path \in Paths : IsFavorite(path)
    \/ \E path \in Paths : FavAdd(path)
    \/ \E path \in Paths : FavRemove(path)

SpecSets == InitSets /\ [][NextSets]_vars

----------------------------------------------------------------------------
(* main(): set_playlist, play_next, then the loop of handle_input and      *)
(* handle_playback.  pc: "start" (Player::new done), "first" (before the   *)
(* first play_next), "input" (before ui.handle_input), "playback" (before  *)
(* handle_playback), "done" (main returned).  The volume, favorite and tag *)
(* keys are left out: they touch neither the playlist nor the sink's queue *)

InitMain ==
    /\ InitCommon
    /\ load_result \in [Files -> {"ok", "decode_error"}]
    /\ pc = "start"

\* main.rs 51-53: a non-empty list goes to set_playlist
MainSetPlaylist ==
    /\ pc = "start"
    /\ \E raw \in RawLists \ {<<>>}, random \in BOOLEAN : DoSetPlaylist(raw, random)
    /\ pc' = "first"

\* main.rs 54
MainFirstPlayNext ==
    /\ pc = "first"
    /\ DoPlayNext
    /\ pc' = "input"

\* Player::is_playing
is_playing(p) == p.sink.exists /\ ~p.sink.paused

\* no key within the poll time (UserAction::None)
MainNoInput ==
    /\ pc = "input"
    /\ pc' = "playback"
    /\ last' = Report("no_input", "ok", FALSE, Idle)
    /\ UNCHANGED <<player, skip_file, favorites_file, Kept, stopwatch, Env>>

\* UserAction::Quit
MainQuit ==
    /\ pc = "input"
    /\ pc' = "done"
    /\ last' = Report("quit", "ok", FALSE, Idle)
    /\ UNCHANGED <<player, skip_file, favorites_file, Kept, stopwatch, Env>>

\* UserAction::PlayPause
MainPlayPause ==
    /\ pc = "input"
    /\ pc' = "playback"
    /\ IF is_playing(player) THEN DoPause ELSE DoPlay

\* UserAction::Next
MainNext == pc = "input" /\ pc' = "playback" /\ DoPlayNext

\* UserAction::Previous
MainPrevious == pc = "input" /\ pc' = "playback" /\ DoPlayPrevious

\* UserAction::MarkSkip: an error ends main
MainMarkSkip ==
    /\ pc = "input"
    /\ DoMarkSkip
    /\ pc' = IF last'.ret = "err" THEN "done" ELSE "playback"

\* UserAction::Delete as it would be if play_next were called before
\* delete_current_track
MainDeleteNextFirst ==
    /\ pc = "input"
    /\ \E confirmed \in BOOLEAN :
         LET paused == pause(player, now)
             r == play_next(paused, disk, load_result, now)
             del == delete_current_track(r.player, disk)
         IN IF paused.current_playing = None
            THEN /\ player' = paused
                 /\ disk' = disk
                 /\ pc' = "playback"
                 /\ last' = Report("delete", "ok", FALSE, Idle)
                 /\ UNCHANGED stopwatch
            ELSE IF ~confirmed
            THEN /\ player' = play(paused, now)
                 /\ disk' = disk
                 /\ pc' = "playback"
                 /\ last' = Report("delete", "declined", FALSE, Idle)
                 /\ UNCHANGED stopwatch
            ELSE IF ~del.ok
            THEN /\ player' = r.player
                 /\ disk' = disk
                 /\ pc' = "done"
                 /\ last' = Report("delete", "err", FALSE, Idle)
                 /\ stopwatch' = Restarted(r)
            ELSE /\ player' = del.player
                 /\ disk' = del.disk
                 /\ pc' = "playback"
                 /\ last' = Report("delete", "ok", TRUE, r)
                 /\ stopwatch' = Restarted(r)
    /\ UNCHANGED <<skip_file, favorites_file, Kept, load_result, now>>

\* UserAction::Delete: pause, ask, then delete and advance, or resume
MainDelete ==
    /\ pc = "input"
    /\ \E confirmed \in BOOLEAN :
         LET paused == pause(player, now)
             del == delete_current_track(paused, disk)
             r == play_next(del.player, del.disk, load_result, now)
         IN IF paused.current_playing = None
            THEN /\ player' = paused
                 /\ disk' = disk
                 /\ pc' = "playback"
                 /\ last' = Report("delete", "ok", FALSE, Idle)
                 /\ UNCHANGED stopwatch
            ELSE IF ~confirmed
            THEN /\ player' = play(paused, now)
                 /\ disk' = disk
                 /\ pc' = "playback"
                 /\ last' = Report("delete", "declined", FALSE, Idle)
                 /\ UNCHANGED stopwatch
            ELSE IF ~del.ok
            THEN /\ player' = paused
                 /\ disk' = disk
                 /\ pc' = "done"
                 /\ last' = Report("delete", "err", FALSE, Idle)
                 /\ UNCHANGED stopwatch
            ELSE /\ player' = r.player
                 /\ disk' = del.disk
                 /\ pc' = "playback"
                 /\ last' = Report("delete", "ok", TRUE, r)
                 /\ stopwatch' = Restarted(r)
    /\ UNCHANGED <<skip_file, favorites_file, Kept, load_result, now>>

\* main.rs 175-178
MainHandlePlayback ==
    /\ pc = "playback"
    /\ DoHandlePlayback
    /\ pc' = IF last'.ret = "stop" THEN "done" ELSE "input"

\* the sink plays on while main runs
MainDrain == pc \in {"input", "playback"} /\ UNCHANGED pc /\ SinkDrain

MainStep ==
    \/ MainSetPlaylist
    \/ MainFirstPlayNext
    \/ MainNoInput
    \/ MainQuit
    \/ MainPlayPause
    \/ MainNext
    \/ MainPrevious
    \/ MainMarkSkip
    \/ MainDelete
    \/ MainHandlePlayback

NextMain == MainStep \/ MainDrain

\* handle_input polls with a timeout, so the loop keeps turning
SpecMain == InitMain /\ [][NextMain]_vars /\ WF_vars(MainStep)

----------------------------------------------------------------------------
(* Vocabulary of the properties                                            *)

\* the path is on the Skip List: its file exists and the skip file holds its
\* canonical path
SkipListed(path) ==
    /\ to_canonical_path(disk, path) # None
    /\ to_canonical_path(disk, path) \in ReadLines(skip_file)

\* the path is a favorite: its file exists and the favorites file holds its
\* canonical path
FavoriteMarked(path) ==
    /\ to_canonical_path(disk, path) # None
    /\ to_canonical_path(disk, path) \in ReadLines(favorites_file)

\* the absolute spelling of a path, whether or not its file exists
AbsoluteOf(path) == IF is_absolute(path) THEN path ELSE current_dir_join(path)

\* a list without the entries equal to a path
Others(plist, path) ==
    LET Other(x) == x # path
    IN SelectSeq(plist, Other)

\* the entries of a list
Entries(plist) == {plist[i] : i \in 1..Len(plist)}

\* every entry of a list can be loaded
AllLoadable(plist) ==
    \A i \in 1..Len(plist) :
        /\ to_canonical_path(disk, plist[i]) # None
        /\ load_result[to_canonical_path(disk, plist[i])] = "ok"

\* the entries of a list name pairwise different files
DistinctFiles(plist) ==
    \A i, j \in 1..Len(plist) :
        i # j => AbsoluteOf(plist[i]) # AbsoluteOf(plist[j])

\* the least member of a non-empty set of numbers
Least(S) == CHOOSE k \in S : \A m \in S : k <= m

\* positions of a path in a list
Positions(plist, path) == {i \in 1..Len(plist) : plist[i] = path}

\* a list without its skip-listed entries
RECURSIVE WithoutSkipListed(_)
WithoutSkipListed(plist) ==
    IF plist = <<>>
    THEN <<>>
    ELSE IF SkipListed(Head(plist))
         THEN WithoutSkipListed(Tail(plist))
         ELSE <<Head(plist)>> \o WithoutSkipListed(Tail(plist))

\* a list with every run of equal neighbours cut to one entry
RECURSIVE Squeeze(_)
Squeeze(plist) ==
    IF Len(plist) <= 1
    THEN plist
    ELSE IF plist[1] = plist[2]
         THEN Squeeze(Tail(plist))
         ELSE <<Head(plist)>> \o Squeeze(Tail(plist))

Distinct(plist) == \A i, j \in 1..Len(plist) : i # j => plist[i] # plist[j]

NavOps == {"play_next", "play_previous"}

\* play_file succeeds on the path
Loadable(path) ==
    /\ to_canonical_path(disk, path) # None
    /\ load_result[to_canonical_path(disk, path)] = "ok"

\* the tracks of the playlist that can be loaded
LoadableTracks == {path \in {player.playlist[i] : i \in 1..Len(player.playlist)} : Loadable(path)}

----------------------------------------------------------------------------
(* Properties                                                              *)

\* C1: right after set_playlist(raw, TRUE) on distinct tracks, every
\* skip-listed input track is absent from the playlist, every other favorite
\* is there exactly twice, at adjacent positions, every other track exactly
\* once, and the input order is kept.
C1_SetPlaylistRandom ==
    (last.op = "set_playlist" /\ last.random /\ Distinct(last.raw)) =>
        /\ \A i \in 1..Len(last.raw) :
             LET path == last.raw[i]
                 at == Positions(player.playlist, path)
             IN IF SkipListed(path)
                THEN at = {}
                ELSE IF FavoriteMarked(path)
                THEN \E k \in 1..Len(player.playlist) : at = {k, k + 1}
                ELSE Cardinality(at) = 1
        /\ Squeeze(player.playlist) = WithoutSkipListed(last.raw)

\* C2: right after set_playlist(raw, FALSE) the playlist is the input with
\* the skip-listed tracks removed and nothing else changed.
C2_SetPlaylistPlain ==
    (last.op = "set_playlist" /\ ~last.random) =>
        player.playlist = WithoutSkipListed(last.raw)

\* What set_playlist does keep: the same two statements with "skip-listed"
\* read as "is_skipped answers true", that is, by the cache of the Skip List
\* (the file's lines as they were when the cache was loaded).
SkipReported(path) ==
    /\ to_canonical_path(disk, path) # None
    /\ to_canonical_path(disk, path) \in
           load_skipped_tracks(player.skip_list, skip_file).set

RECURSIVE WithoutSkipReported(_)
WithoutSkipReported(plist) ==
    IF plist = <<>>
    THEN <<>>
    ELSE IF SkipReported(Head(plist))
         THEN WithoutSkipReported(Tail(plist))
         ELSE <<Head(plist)>> \o WithoutSkipReported(Tail(plist))

SetPlaylistRandomAsReported ==
    (last.op = "set_playlist" /\ last.random /\ Distinct(last.raw)) =>
        /\ \A i \in 1..Len(last.raw) :
             LET path == last.raw[i]
                 at == Positions(player.playlist, path)
             IN IF SkipReported(path)
                THEN at = {}
                ELSE IF FavoriteMarked(path)
                THEN \E k \in 1..Len(player.playlist) : at = {k, k + 1}
                ELSE Cardinality(at) = 1
        /\ Squeeze(player.playlist) = WithoutSkipReported(last.raw)

SetPlaylistPlainAsReported ==
    (last.op = "set_playlist" /\ ~last.random) =>
        player.playlist = WithoutSkipReported(last.raw)

\* C3: whenever the playlist is not empty the cursor is an index into it.
C3_CursorInRange ==
    player.playlist # <<>> =>
        (0 <= player.current_index /\ player.current_index < Len(player.playlist))

\* C3 witness: a removal at the cursor's last position left the cursor on the
\* last entry of a shorter, non-empty playlist.
C3_Witness ==
    /\ last.op \in {"delete_current_track", "mark_skip"}
    /\ last.ret = "ok"
    /\ Len(player.playlist) >= 2
    /\ player.current_index = Len(player.playlist) - 1

\* C10: is_skipped on a path whose file this process has added to the Skip
\* List answers true.
C10_AddedIsSkipped ==
    (last.op = "is_skipped" /\ to_canonical_path(disk, last.path) \in added) =>
        last.value = TRUE

\* C4: after a successful play_next or play_previous on a playlist of
\* distinct tracks the cursor is one past the track just loaded (cyclically).
C4_CursorIsNext ==
    (last.op \in NavOps /\ last.loaded /\ Distinct(player.playlist)) =>
        player.current_index =
            (position(player.playlist, player.current_playing) + 1)
                % Len(player.playlist)

\* C5: play_next and play_previous return after at most one load attempt per
\* playlist entry, and after none on an empty playlist.  (Every step of the
\* model is one whole call: TLC evaluates the loop to its end.)
C5_BoundedAttempts ==
    last.op \in NavOps =>
        /\ last.attempts <= Len(player.playlist)
        /\ player.playlist = <<>> => last.attempts = 0

\* C5 witness: a call that tried every entry of a playlist of two or more
\* tracks, all failing, and returned.
C5_Witness ==
    /\ last.op \in NavOps
    /\ Len(player.playlist) >= 2
    /\ last.attempts = Len(player.playlist)
    /\ ~last.loaded

\* C6: when no track of the playlist can be loaded, play_next and
\* play_previous return Ok, load nothing and leave the current track as it
\* was (unset if it was unset).
C6_AllFailKeepsCurrent ==
    [][(last'.op \in NavOps /\ LoadableTracks = {}) =>
          /\ last'.ret = "ok"
          /\ ~last'.loaded
          /\ player.current_playing = None => player'.current_playing = None
          /\ player'.current_playing = player.current_playing]_vars

\* C6 witness: a call on a non-empty playlist of unloadable tracks returned
\* Ok after a full pass, the current track still unset.
C6_Witness ==
    /\ last.op \in NavOps
    /\ last.ret = "ok"
    /\ player.playlist # <<>>
    /\ LoadableTracks = {}
    /\ last.attempts = Len(player.playlist)
    /\ player.current_playing = None

\* C7: with exactly one loadable track in the playlist, every play_next and
\* every play_previous ends with that track as the current track.
C7_OnlyLoadableIsPlayed ==
    (last.op \in NavOps /\ Cardinality(LoadableTracks) = 1) =>
        /\ last.loaded
        /\ player.current_playing \in LoadableTracks

\* C7 witness: play_previous reached the only loadable track of a playlist of
\* three or more entries on its last attempt.
C7_Witness ==
    /\ last.op = "play_previous"
    /\ Cardinality(LoadableTracks) = 1
    /\ Len(player.playlist) >= 3
    /\ last.attempts = Len(player.playlist)
    /\ player.current_playing \in LoadableTracks

\* C9: handle_playback calls play_next and reports continue when a sink
\* exists, its queue is empty, the playlist is not empty and the cursor is
\* within it; reports stop and loads nothing when the cursor is past the end;
\* and otherwise reports continue and changes nothing.
C9_HandlePlaybackDecides ==
    [][last'.op = "handle_playback" =>
          LET due == player.sink.exists /\ player.sink.empty /\ player.playlist # <<>>
              within == player.current_index < Len(player.playlist)
          IN /\ (due /\ within) =>
                    /\ last'.called
                    /\ last'.ret = "continue"
                    /\ player' = play_next(player, disk, load_result, now).player
             /\ (due /\ ~within) =>
                    /\ ~last'.called
                    /\ last'.ret = "stop"
                    /\ player' = player
             /\ ~due =>
                    /\ ~last'.called
                    /\ last'.ret = "continue"
                    /\ UNCHANGED <<player, skip_file, favorites_file, disk>>]_vars

\* C9 witness: handle_playback found the queue empty and loaded a track; the
\* call before it had found a paused sink and done nothing.
C9_Witness ==
    /\ last.op = "handle_playback"
    /\ last.called
    /\ last.loaded
    /\ last.ret = "continue"

\* C8: in main, whenever handle_playback finds the sink's queue empty while
\* a playlist track is loadable, that very call loads a loadable track; and
\* an empty queue with a loadable track in the playlist always leads to a
\* track playing again (unless main returns or the loadable tracks are gone).
C8_NoStall ==
    /\ [][(last'.op = "handle_playback" /\ player.sink.exists /\ player.sink.empty
              /\ LoadableTracks # {}) =>
             /\ last'.loaded
             /\ player'.current_playing \in LoadableTracks
             /\ player'.sink.exists /\ ~player'.sink.empty]_vars
    /\ (pc # "done" /\ player.sink.exists /\ player.sink.empty /\ LoadableTracks # {})
          ~> \/ player.sink.exists /\ ~player.sink.empty
             \/ pc = "done"
             \/ LoadableTracks = {}

\* C8 witness: a tick of the loop found the queue empty, passed over an
\* unplayable file and loaded the next loadable track.
C8_Witness ==
    /\ pc = "input"
    /\ last.op = "handle_playback"
    /\ last.loaded
    /\ last.attempts >= 2
    /\ ~player.sink.empty

\* C11: when a path is in the loaded Skip List cache and its file is then
\* removed, is_skipped on that path (in any spelling) still answers true.
C11_DeletedKeepsCachedAnswer ==
    [][(/\ last.op = "file_removed"
        /\ player.skip_list.some
        /\ last.path \in player.skip_list.set
        /\ last'.op = "is_skipped"
        /\ AbsoluteOf(last'.path) = last.path) =>
          last'.value = TRUE]_vars

C13_FavoritesRoundTrip ==
    [][/\ (last'.op = "fav_add" /\ to_canonical_path(disk, last'.path) # None) =>
            /\ last'.ret = "ok"
            /\ FavoritesList_is_favorite(player'.favorites_list, disk', last'.path)
       /\ (last'.op = "fav_remove" /\ to_canonical_path(disk, last'.path) # None) =>
            /\ last'.ret = "ok"
            /\ ~FavoritesList_is_favorite(player'.favorites_list, disk', last'.path)
       /\ (last'.op = "fav_add"
              /\ FavoritesList_is_favorite(player.favorites_list, disk, last'.path)) =>
            /\ player'.favorites_list = player.favorites_list
            /\ Cardinality(player'.favorites_list) = Cardinality(player.favorites_list)
            /\ favorites_file' = favorites_file]_vars

\* C13 witness: add was called with the relative spelling of a track that
\* already was a favorite, and the track is a favorite.
C13_Witness ==
    /\ last.op = "fav_add"
    /\ last.ret = "ok"
    /\ last.path \in RelPaths
    /\ last.value
    /\ FavoritesList_is_favorite(player.favorites_list, disk, last.path)

\* C14: SkipList::add and FavoritesList::add fail exactly when the path
\* cannot be canonicalized, a failed add changes neither file nor cache, and
\* every line or cache entry that comes to be stored is the canonical path
\* of an existing file.
C14_OnlyCanonicalStored ==
    [][/\ last'.op \in {"skip_add", "fav_add"} =>
            /\ last'.ret = "err" <=> to_canonical_path(disk, last'.path) = None
            /\ last'.ret = "err" =>
                   UNCHANGED <<skip_file, favorites_file, player>>
            /\ last'.ret = "ok" =>
                   to_canonical_path(disk, last'.path)
                       \in BagToSet(IF last'.op = "skip_add"
                                    THEN skip_file' ELSE favorites_file')
       /\ BagToSet(skip_file' (-) skip_file) \subseteq disk
       /\ BagToSet(favorites_file' (-) favorites_file) \subseteq disk
       /\ (player'.favorites_list \ player.favorites_list) \subseteq disk]_vars

\* C14 witness: SkipList::add failed on a relative path whose file had been
\* removed, after an earlier add had stored a line.
C14_Witness ==
    /\ last.op = "skip_add"
    /\ last.ret = "err"
    /\ last.path \in RelPaths
    /\ added # {}

\* C15: after a successful mark_skip no entry equal to the skipped track is
\* left in the playlist.
C15_SkippedTrackGone ==
    [][(last'.op = "mark_skip" /\ last'.ret = "ok" /\ player.current_playing # None) =>
          player.current_playing \notin Entries(player'.playlist)]_vars

\* C16: a successful mark_skip appends the canonical path of the current
\* track, and nothing else, to the skip file; it leaves the favorites file
\* and the audio files alone; the entries different from the current track
\* stay, in their order; and the cursor is an index of the playlist left.
C16_MarkSkipOnlyCurrent ==
    [][(last'.op = "mark_skip" /\ last'.ret = "ok" /\ player.current_playing # None) =>
          /\ skip_file' = AppendLine(skip_file,
                                     to_canonical_path(disk, player.current_playing))
          /\ UNCHANGED <<favorites_file, disk>>
          /\ player'.favorites_list = player.favorites_list
          /\ Others(player'.playlist, player.current_playing)
                 = Others(player.playlist, player.current_playing)
          /\ player'.playlist # <<>> =>
                 /\ 0 <= player'.current_index
                 /\ player'.current_index < Len(player'.playlist)]_vars

\* C16 witness: mark_skip took a track out of a playlist of three, the skip
\* file has its line, two tracks are left and another track is playing.
C16_Witness ==
    /\ last.op = "mark_skip"
    /\ last.ret = "ok"
    /\ last.called
    /\ last.loaded
    /\ Len(player.playlist) = 2
    /\ added # {}
    /\ player.current_playing \notin added

\* C17: mark_skip returns an error exactly when there is a current track
\* and the Skip List add fails on it; then the playlist, the cursor, the
\* current track, the sink and the skip file are as before and play_next was
\* not called.  Without a current track it returns Ok and changes nothing.
C17_MarkSkipFailure ==
    [][last'.op = "mark_skip" =>
          /\ last'.ret = "err" <=>
                 /\ player.current_playing # None
                 /\ ~SkipList_add(skip_file, disk, player.current_playing).ok
          /\ last'.ret = "err" =>
                 /\ player'.playlist = player.playlist
                 /\ player'.current_index = player.current_index
                 /\ player'.current_playing = player.current_playing
                 /\ player'.sink = player.sink
                 /\ skip_file' = skip_file
                 /\ ~last'.called
          /\ player.current_playing = None =>
                 /\ last'.ret = "ok"
                 /\ ~last'.called
                 /\ UNCHANGED <<player, skip_file>>]_vars

\* C17 witness: mark_skip failed on a current track whose file is gone while
\* the playlist still holds an entry equal to it.
C17_Witness ==
    /\ last.op = "mark_skip"
    /\ last.ret = "err"
    /\ player.current_playing \in Entries(player.playlist)

\* C19: delete_current_track returns an error exactly when the file of the
\* current track cannot be removed, and then changes nothing; when it
\* succeeds the file is gone, the first entry equal to the current track (if
\* there is one) is removed, the cursor moves back by one when that entry is
\* at or before a cursor above 0, and the current track, the sink and the
\* clock are left alone: nothing is loaded.
C19_DeleteCurrentTrack ==
    [][(last'.op = "delete_current_track" /\ player.current_playing # None) =>
          LET index == position(player.playlist, player.current_playing)
          IN /\ last'.ret = "err" <=>
                    ~remove_file(disk, player.current_playing).ok
             /\ last'.ret = "err" => UNCHANGED <<player, disk>>
             /\ last'.ret = "ok" =>
                    /\ to_canonical_path(disk', player.current_playing) = None
                    /\ index = -1 => UNCHANGED player
                    /\ index # -1 =>
                           /\ player'.playlist = vec_remove(player.playlist, index)
                           /\ Len(player'.playlist) = Len(player.playlist) - 1
                           /\ player'.current_index =
                                  IF index <= player.current_index
                                        /\ player.current_index > 0
                                  THEN player.current_index - 1
                                  ELSE player.current_index
                    /\ player'.current_playing = player.current_playing
                    /\ player'.sink = player.sink
                    /\ player'.start_time = player.start_time
                    /\ ~last'.loaded]_vars

\* C19 witness: delete_current_track failed on a file already removed while
\* the playlist still holds an entry equal to the current track.
C19_Witness ==
    /\ last.op = "delete_current_track"
    /\ last.ret = "err"
    /\ player.current_playing \in Entries(player.playlist)
    /\ Len(player.playlist) >= 2

\* C18: mark_favorite without a current track changes nothing; a successful
\* call with a current track flips is_favorite of that track, leaves the
\* membership of every other file and the rest of the Player as they were;
\* and two successful calls in a row give back the favorites set they
\* started from.
C18_MarkFavoriteToggles ==
    /\ [][last'.op = "mark_favorite" =>
            LET cur == player.current_playing
            IN /\ cur = None =>
                      /\ last'.ret = "ok"
                      /\ UNCHANGED <<player, favorites_file>>
               /\ (cur # None /\ last'.ret = "ok") =>
                      /\ FavoritesList_is_favorite(player'.favorites_list, disk', cur)
                             = ~FavoritesList_is_favorite(player.favorites_list, disk, cur)
                      /\ \A f \in Files \ {to_canonical_path(disk, cur)} :
                             (f \in player'.favorites_list) = (f \in player.favorites_list)
               /\ player' = [player EXCEPT !.favorites_list = player'.favorites_list]
               /\ UNCHANGED <<skip_file, disk>>]_vars
    /\ [](LET first == mark_favorite(player, favorites_file, disk)
              second == mark_favorite([player EXCEPT !.favorites_list = first.cached],
                                      first.file, disk)
          IN (first.ok /\ second.ok) => second.cached = player.favorites_list)

\* C18 witness: mark_favorite has just taken the current track, whose file
\* exists, off the favorites: cache and file are empty.
C18_Witness ==
    /\ last.op = "mark_favorite"
    /\ last.ret = "ok"
    /\ player.current_playing # None
    /\ to_canonical_path(disk, player.current_playing) # None
    /\ player.favorites_list = {}
    /\ favorites_file = EmptyBag

\* C20: while a track is loaded, the position reported is the time since
\* the last successful load less the time the sink has been paused since
\* then, whatever loads, pauses, resumes and ticks came before.
C20_PositionIsPlayedTime ==
    stopwatch.loaded_at # NoInstant =>
        get_current_position(player, now, now)
            = [some |-> TRUE, panics |-> FALSE,
               value |-> (now - stopwatch.loaded_at) - stopwatch.paused_for]

\* the same when every file loads: no failed load comes into it
PositionIsPlayedTimeWhenAllLoad ==
    (\A f \in Files : load_result[f] = "ok") => C20_PositionIsPlayedTime

\* C21: with a track loaded the subtraction in get_current_position does not
\* go below zero, and before the first successful load the position is none.
C21_PositionNeverNegative ==
    /\ \A t2 \in now..(now + 1) : ~get_current_position(player, now, t2).panics
    /\ stopwatch.loaded_at # NoInstant => get_current_position(player, now, now).value >= 0
    /\ stopwatch.loaded_at = NoInstant => ~get_current_position(player, now, now).some

\* the first half of C21 when both clock reads give the same time
PositionSubtractionIsSafe == ~get_current_position(player, now, now).panics

\* the first half of C21 when the clock moves on between the two reads
PositionSubtractionIsSafeAcrossReads ==
    \A t2 \in now..(now + 1) : ~get_current_position(player, now, t2).panics

\* the second half of C21 where no load fails at the sink
NoPositionBeforeLoadWithoutSinkError ==
    (stopwatch.loaded_at = NoInstant /\ \A f \in Files : load_result[f] # "sink_error") =>
        ~get_current_position(player, now, now).some

\* C22: a call that loads a track leaves start_time at the time of the call,
\* paused_duration at zero and pause_start unset, with a fresh sink that is
\* not paused; the position reads 0, and the current track is the file that
\* was loaded (the one total_duration and the metadata were read from).
C22_LoadResetsClock ==
    [][last'.loaded =>
          /\ player'.start_time = now
          /\ player'.paused_duration = 0
          /\ player'.pause_start = NoInstant
          /\ get_current_position(player', now', now')
                 = [some |-> TRUE, panics |-> FALSE, value |-> 0]
          /\ player'.sink = NewSink
          /\ player'.current_playing # None
          /\ player'.current_playing \in Entries(player.playlist)
          /\ player'.total_duration
                 = DurationOf(to_canonical_path(disk, player'.current_playing))
          /\ player'.current_metadata
                 = MetadataOf(to_canonical_path(disk, player'.current_playing))]_vars

\* C22 witness: a track loaded some time after the first load, the one
\* before it having been paused for a while: position 0, nothing paused.
C22_Witness ==
    /\ last.op \in NavOps
    /\ last.loaded
    /\ now >= 2
    /\ player.start_time = now
    /\ stopwatch = [loaded_at |-> now, paused_for |-> 0]
    /\ player.paused_duration = 0
    /\ ~player.sink.paused

\* C24: pause_start is set exactly when a sink exists and is paused,
\* is_playing is true exactly when a sink exists and is not paused, and
\* without a sink pause and play change nothing.
C24_PauseMarkerAgrees ==
    /\ player.pause_start # NoInstant <=> (player.sink.exists /\ player.sink.paused)
    /\ is_playing(player) <=> (player.sink.exists /\ ~player.sink.paused)
    /\ ~player.sink.exists =>
           /\ pause(player, now) = player
           /\ play(player, now) = player

\* C24 where no load fails at the sink
PauseMarkerAgreesWithoutSinkError ==
    (\A f \in Files : load_result[f] # "sink_error") => C24_PauseMarkerAgrees

\* C29: a play_next or play_previous in which every load attempt failed
\* leaves the current track, the sink, the total duration, the metadata and
\* the three clock fields as they were.
C29_FailedLoadChangesNothing ==
    [][(last'.op \in NavOps /\ ~last'.loaded) =>
          /\ player'.current_playing = player.current_playing
          /\ player'.sink = player.sink
          /\ player'.total_duration = player.total_duration
          /\ player'.current_metadata = player.current_metadata
          /\ player'.start_time = player.start_time
          /\ player'.paused_duration = player.paused_duration
          /\ player'.pause_start = player.pause_start]_vars

\* C29 where no load fails at the sink (file missing or decode error only)
FailedLoadChangesNothingWithoutSinkError ==
    [][(last'.op \in NavOps /\ ~last'.loaded
           /\ \A f \in Files : load_result[f] # "sink_error") =>
          /\ player'.current_playing = player.current_playing
          /\ player'.sink = player.sink
          /\ player'.total_duration = player.total_duration
          /\ player'.current_metadata = player.current_metadata
          /\ player'.start_time = player.start_time
          /\ player'.paused_duration = player.paused_duration
          /\ player'.pause_start = player.pause_start]_vars

\* C23: the volume, in steps of 0.1, is always within 0..20; increase_volume
\* and decrease_volume move it by one step, stopping at 20 and at 0, touch
\* nothing else, and change nothing at all when there is no sink.
C23_VolumeClamped ==
    /\ [](player.sink.volume \in 0..20)
    /\ [][/\ last'.op = "increase_volume" =>
               IF player.sink.exists
               THEN /\ player'.sink.volume =
                          IF player.sink.volume = 20 THEN 20 ELSE player.sink.volume + 1
                    /\ player' = [player EXCEPT !.sink.volume = player'.sink.volume]
               ELSE player' = player
          /\ last'.op = "decrease_volume" =>
               IF player.sink.exists
               THEN /\ player'.sink.volume =
                          IF player.sink.volume = 0 THEN 0 ELSE player.sink.volume - 1
                    /\ player' = [player EXCEPT !.sink.volume = player'.sink.volume]
               ELSE player' = player]_vars

\* C23 witness: increase_volume was called on a sink at the top of the
\* range, which the volume reaches only from the default by increases.
C23_Witness ==
    /\ last.op = "increase_volume"
    /\ player.sink.exists
    /\ player.sink.volume = 20

\* C25: after a successful mark_skip on a playlist of two or more different,
\* loadable tracks, the track playing is the one that came after the skipped
\* track in the playlist (the first one after the last).
C25_SkipPlaysFollower ==
    [][(/\ last'.op = "mark_skip" /\ last'.ret = "ok"
        /\ player.current_playing \in Entries(player.playlist)
        /\ Len(player.playlist) >= 2
        /\ DistinctFiles(player.playlist)
        /\ AllLoadable(player.playlist)) =>
          player'.current_playing =
              player.playlist[((position(player.playlist, player.current_playing) + 1)
                                  % Len(player.playlist)) + 1]]_vars

\* C25 for a track reached by play_next
SkipAfterPlayNextPlaysFollower ==
    [][(/\ last.op = "play_next" /\ last.loaded
        /\ last'.op = "mark_skip" /\ last'.ret = "ok"
        /\ Len(player.playlist) >= 2
        /\ DistinctFiles(player.playlist)
        /\ AllLoadable(player.playlist)) =>
          player'.current_playing =
              player.playlist[((position(player.playlist, player.current_playing) + 1)
                                  % Len(player.playlist)) + 1]]_vars

\* C26: on a non-empty playlist play_next loads the first loadable track
\* counting forward (cyclically) from the cursor, the cursor's own entry
\* included, and play_previous the first loadable track counting backward
\* from the entry before the cursor; the attempts made are the entries
\* passed over plus one, nothing is loaded when no entry is loadable, and the
\* playlist is left as it was.
C26_FirstLoadableInOrder ==
    [][(last'.op \in NavOps /\ player.playlist # <<>>) =>
          LET n == Len(player.playlist)
              start == IF last'.op = "play_next"
                       THEN (IF player.current_index >= n THEN 0 ELSE player.current_index)
                       ELSE (IF player.current_index = 0
                             THEN n - 1 ELSE player.current_index - 1)
              At(k) == IF last'.op = "play_next"
                       THEN player.playlist[((start + k) % n) + 1]
                       ELSE player.playlist[((start + n - k) % n) + 1]
              ks == {k \in 0..(n - 1) : Loadable(At(k))}
          IN /\ player'.playlist = player.playlist
             /\ ks # {} =>
                    /\ last'.loaded
                    /\ player'.current_playing = At(Least(ks))
                    /\ last'.attempts = Least(ks) + 1
             /\ ks = {} =>
                    /\ ~last'.loaded
                    /\ last'.attempts = n]_vars

\* C26 witness: play_next passed over one unloadable entry of a playlist of
\* three and loaded the next entry, another loadable one lying further on.
C26_Witness ==
    /\ last.op = "play_next"
    /\ last.loaded
    /\ last.attempts = 2
    /\ Len(player.playlist) = 3
    /\ Cardinality(LoadableTracks) = 2
    /\ Distinct(player.playlist)

\* C30: on a playlist of two or more distinct, loadable tracks, play_previous
\* right after play_next loads the track play_next loaded, play_previous
\* right after play_previous loads the track before it, and play_next right
\* after play_previous loads the same track once more; each is a fresh load
\* at the first attempt.
C30_PreviousReloads ==
    [][(/\ last.op \in NavOps /\ last.loaded
        /\ last'.op \in NavOps
        /\ Len(player.playlist) >= 2
        /\ Distinct(player.playlist)
        /\ AllLoadable(player.playlist)) =>
          LET n == Len(player.playlist)
              cur == position(player.playlist, player.current_playing)
          IN /\ last'.loaded /\ last'.attempts = 1
             /\ player'.sink = NewSink
             /\ (last.op = "play_next" /\ last'.op = "play_previous") =>
                    player'.current_playing = player.current_playing
             /\ (last.op = "play_previous" /\ last'.op = "play_previous") =>
                    player'.current_playing = player.playlist[((cur + n - 1) % n) + 1]
             /\ (last.op = "play_previous" /\ last'.op = "play_next") =>
                    player'.current_playing = player.current_playing]_vars

\* C30 witness: play_previous loaded, at its first attempt, a track of a
\* playlist of three distinct loadable tracks on which the cursor now stands.
C30_Witness ==
    /\ last.op = "play_previous"
    /\ last.loaded
    /\ last.attempts = 1
    /\ Len(player.playlist) = 3
    /\ Distinct(player.playlist)
    /\ AllLoadable(player.playlist)
    /\ player.current_index = position(player.playlist, player.current_playing)
    /\ player.current_index = 1

\* C27: the Delete key in main.  With a current track the player is paused
\* before the question is asked: whenever the step ends without a load or a
\* resume the sink is paused.  Confirmed: the file of the current track is
\* removed and its first playlist entry with it, and only then play_next
\* runs, so a track it loads still has its file.  Declined: playback is
\* resumed and the files, the playlist, the cursor and the current track are
\* as before.  Without a current track nothing is asked or changed.
C27_DeleteKey ==
    [][last'.op = "delete" =>
          LET cur == player.current_playing
              index == position(player.playlist, cur)
          IN /\ cur = None =>
                    /\ last'.ret = "ok" /\ ~last'.called
                    /\ UNCHANGED <<player, disk>>
             /\ (cur # None /\ last'.ret = "declined") =>
                    /\ disk' = disk
                    /\ player'.playlist = player.playlist
                    /\ player'.current_index = player.current_index
                    /\ player'.current_playing = cur
                    /\ player'.sink = [player.sink EXCEPT !.paused = FALSE]
                    /\ player'.pause_start = NoInstant
                    /\ is_playing(player')
             /\ (cur # None /\ last'.ret = "err") =>
                    /\ to_canonical_path(disk, cur) = None
                    /\ disk' = disk
                    /\ player'.playlist = player.playlist
                    /\ player'.current_index = player.current_index
                    /\ player'.sink.paused
                    /\ pc' = "done"
             /\ (cur # None /\ last'.ret = "ok") =>
                    /\ last'.called
                    /\ to_canonical_path(disk, cur) # None
                    /\ disk' = disk \ {to_canonical_path(disk, cur)}
                    /\ player'.playlist = IF index = -1 THEN player.playlist
                                          ELSE vec_remove(player.playlist, index)
                    /\ last'.loaded =>
                           /\ to_canonical_path(disk', player'.current_playing) # None
                           /\ is_playing(player')
                    /\ ~last'.loaded =>
                           /\ player'.current_playing = cur
                           /\ player'.sink.paused
             /\ cur # None => last'.ret \in {"declined", "err", "ok"}]_vars

\* C27 witness: a confirmed Delete removed the file of the current track and
\* play_next then loaded one of the tracks left.
C27_Witness ==
    /\ pc = "playback"
    /\ last.op = "delete"
    /\ last.ret = "ok"
    /\ last.called
    /\ last.loaded
    /\ disk # Files
    /\ player.playlist # <<>>

\* C28: handle_playback never reports stop, the cursor of a non-empty
\* playlist is always within it, and main has returned only after the quit
\* key or after an error of mark_skip or delete_current_track.
C28_NeverStops ==
    /\ last.op = "handle_playback" => last.ret = "continue"
    /\ player.playlist # <<>> => player.current_index < Len(player.playlist)
    /\ pc = "done" => (last.op = "quit" \/ last.ret = "err")

\* C28 witness: handle_playback found the queue empty after the last track
\* of a playlist of two or more, loaded the first track again and went on.
C28_Witness ==
    /\ last.op = "handle_playback"
    /\ last.ret = "continue"
    /\ last.loaded
    /\ last.attempts = 1
    /\ Len(player.playlist) >= 2
    /\ player.current_playing = player.playlist[1]
    /\ player.current_index = 1
    /\ pc = "input"

\* C31: the non-blank lines of the favorites file are the entries of the
\* in-memory cache, from construction on and after every add and remove.
C31_FavoritesFileIsCache ==
    ReadLines(favorites_file) = player.favorites_list

\* C31 witness: remove has just taken a favorite off while another one
\* stays, after an add had put one on.
C31_Witness ==
    /\ last.op = "fav_remove"
    /\ last.ret = "ok"
    /\ last.value
    /\ player.favorites_list # {}
    /\ "/m/a.mp3" \notin player.favorites_list

\* C32: a play_next or play_previous call in which no load succeeds leaves
\* the cursor where it was.
C32_AllFailKeepsCursor ==
    [][(last'.op \in NavOps /\ ~last'.loaded) =>
          player'.current_index = player.current_index]_vars

\* C32 witness: play_previous went once round a playlist of two or more
\* unloadable tracks and the cursor is back on an index other than 0.
C32_Witness ==
    /\ last.op = "play_previous"
    /\ ~last.loaded
    /\ Len(player.playlist) >= 2
    /\ last.attempts = Len(player.playlist)
    /\ player.current_index > 0

\* C33: a successful mark_skip on a playlist holding only the current track
\* empties the playlist, loads nothing and leaves the current track, the
\* sink and the clock as they were; and on an empty playlist play_next,
\* play_previous and handle_playback change nothing (handle_playback
\* reporting continue).
C33_SkipOnlyEntry ==
    [][/\ (last'.op = "mark_skip" /\ last'.ret = "ok"
              /\ player.current_playing # None
              /\ player.playlist = <<player.current_playing>>) =>
            /\ player'.playlist = <<>>
            /\ ~last'.loaded /\ last'.attempts = 0
            /\ player'.current_playing = player.current_playing
            /\ player'.sink = player.sink
            /\ player'.start_time = player.start_time
            /\ player'.paused_duration = player.paused_duration
            /\ player'.pause_start = player.pause_start
       /\ (player.playlist = <<>>
              /\ last'.op \in {"play_next", "play_previous", "handle_playback"}) =>
            /\ player' = player
            /\ ~last'.loaded
            /\ last'.op = "handle_playback" => last'.ret = "continue"]_vars

\* C33 witness: handle_playback ran on the playlist mark_skip had emptied,
\* the skipped track still current and its sink played to the end.
C33_Witness ==
    /\ last.op = "handle_playback"
    /\ last.ret = "continue"
    /\ player.playlist = <<>>
    /\ player.current_playing \in added
    /\ player.sink.exists
    /\ player.sink.empty

====
